---- MODULE Spec2Model ----
(***************************************************************************)
(* Model of the serial console session engine, ntfc.device.serial          *)
(* (class DeviceSerial) and ntfc.device.common (CmdStatus, CmdReturn).     *)
(*                                                                         *)
(* Time is counted in milliseconds.  Python `bytes` values are kept        *)
(* run-length encoded: a value is a sequence of runs <<byte, count>> with  *)
(* count >= 1 and no two neighbouring runs of the same byte, so that a     *)
(* 10,000 byte accumulator stays a short sequence.  Every bytes operation  *)
(* the code uses (+, len, slicing, `in`, re.search of a literal pattern)   *)
(* is computed on that encoding byte for byte.                             *)
(*                                                                         *)
(* A call is executed step by step: pc is the stack of continuation        *)
(* labels of the call in flight (<<>> when the engine is idle).  One step  *)
(* is one iteration of a polling loop or the straight-line code between    *)
(* two polling loops; the device may emit bytes between any two steps.     *)
(***************************************************************************)
EXTENDS Integers, Sequences, FiniteSets, TLC

(***************************************************************************)
(* Bounds of the model                                                     *)
(***************************************************************************)
\* latest time (ms) a caller waits for before a call
MaxClock == 210000
\* a caller starts its calls on multiples of this period (s)
CallPeriod == 10
\* calls that poll the transport or switch the log collection, plus device
\* chunks, explored in one behaviour
MaxWork == 4
\* largest timeout (s) a caller passes
MaxTimeout == 2
\* size (bytes) and number of the bursts of the flooding device
FloodBurst == 12400
FloodCount == 1

(***************************************************************************)
(* Program constants                                                       *)
(***************************************************************************)
\* _BUSY_LOOP_TIMEOUT, seconds
BUSY_LOOP_TIMEOUT == 180
\* self._ser.read(size=1024)
READ_SIZE == 1024
\* time.sleep(0.1) of the read loop, in ms
SLEEP_MS == 100
\* default timeout of _read_all, seconds
READ_ALL_TIMEOUT == 1
\* len(output) > 10000 / output[-10000:]
OUTPUT_CAP == 10000
\* default timeout of _wait_for_boot, seconds
BOOT_TIMEOUT == 5
\* send_command(b"\n", 1) of the boot probe, seconds
BOOT_PROBE_TIMEOUT == 1
\* time.sleep(1) between boot probes, seconds
BOOT_SLEEP == 1

Sec(s) == s * 1000

(***************************************************************************)
(* Byte values the code names                                              *)
(***************************************************************************)
\* b"\n"
NL == 10
\* \x1B
ESC == 27

(***************************************************************************)
(* Python bytes, run-length encoded                                        *)
(***************************************************************************)
BEmpty == <<>>

BRun(b, n) == IF n = 0 THEN <<>> ELSE << <<b, n>> >>

B(b) == BRun(b, 1)

\* s + t
BCat(s, t) ==
    IF s = <<>> THEN t
    ELSE IF t = <<>> THEN s
    ELSE LET l == s[Len(s)]
             f == t[1]
         IN  IF l[1] = f[1]
             THEN SubSeq(s, 1, Len(s) - 1) \o << <<l[1], l[2] + f[2]>> >> \o Tail(t)
             ELSE s \o t

RECURSIVE BLen(_)
\* len(s)
BLen(s) == IF s = <<>> THEN 0 ELSE s[1][2] + BLen(Tail(s))

RECURSIVE BTake(_, _)
\* s[:k]
BTake(s, k) ==
    IF k <= 0 \/ s = <<>> THEN <<>>
    ELSE IF s[1][2] <= k THEN <<s[1]>> \o BTake(Tail(s), k - s[1][2])
    ELSE << <<s[1][1], k>> >>

RECURSIVE BDrop(_, _)
\* s[k:]
BDrop(s, k) ==
    IF k <= 0 THEN s
    ELSE IF s = <<>> THEN <<>>
    ELSE IF s[1][2] <= k THEN BDrop(Tail(s), k - s[1][2])
    ELSE << <<s[1][1], s[1][2] - k>> >> \o Tail(s)

\* s[-k:] for k > 0
BSuffix(s, k) == BDrop(s, BLen(s) - k)

\* s[-1], an int in Python 3
BLast(s) == s[Len(s)][1]

\* p in s  (also re.search(p, s) for a pattern p without metacharacters)
BContains(s, p) ==
    \/ p = <<>>
    \/ LET k == Len(p)
       IN  \E i \in 1..(Len(s) - k + 1) :
             /\ s[i][1] = p[1][1]
             /\ s[i + k - 1][1] = p[k][1]
             /\ IF k = 1 THEN s[i][2] >= p[1][2]
                ELSE /\ s[i][2] >= p[1][2]
                     /\ s[i + k - 1][2] >= p[k][2]
                     /\ \A j \in 2..(k - 1) : s[i + j - 1] = p[j]

RECURSIVE Unpack(_)
\* the plain byte sequence of a run-length encoded value
Unpack(s) ==
    IF s = <<>> THEN <<>>
    ELSE [i \in 1..s[1][2] |-> s[1][1]] \o Unpack(Tail(s))

RECURSIVE Pack(_)
\* the run-length encoding of a plain byte sequence
Pack(q) == IF q = <<>> THEN <<>> ELSE BCat(B(q[1]), Pack(Tail(q)))

(***************************************************************************)
(* ansi_escape = rb"\x1B(?:[@-Z\\-_]|\[[0-?]*[ -/]*[@-~])"                 *)
(***************************************************************************)
RECURSIVE SkipClass(_, _, _, _)
\* first index >= i of q whose byte is outside lo..hi (Len(q)+1 if none)
SkipClass(q, i, lo, hi) ==
    IF i <= Len(q) /\ q[i] >= lo /\ q[i] <= hi THEN SkipClass(q, i + 1, lo, hi) ELSE i

\* length of the match of ansi_escape at the start of q (q[1] = ESC); 0: no match
EscLen(q) ==
    IF Len(q) < 2 THEN 0
    ELSE IF (q[2] >= 64 /\ q[2] <= 90) \/ (q[2] >= 92 /\ q[2] <= 95) THEN 2
    ELSE IF q[2] # 91 THEN 0
    ELSE LET i == SkipClass(q, 3, 48, 63)
             j == SkipClass(q, i, 32, 47)
         IN  IF j <= Len(q) /\ q[j] >= 64 /\ q[j] <= 126 THEN j ELSE 0

RECURSIVE StripPlain(_)
\* ansi_escape.sub(b"", q) on a plain byte sequence
StripPlain(q) ==
    IF q = <<>> THEN <<>>
    ELSE IF q[1] = ESC /\ EscLen(q) > 0 THEN StripPlain(SubSeq(q, EscLen(q) + 1, Len(q)))
    ELSE <<q[1]>> \o StripPlain(Tail(q))

\* ansi_escape.sub(b"", s); every match starts with ESC
AnsiStrip(s) ==
    IF \A i \in 1..Len(s) : s[i][1] # ESC THEN s ELSE Pack(StripPlain(Unpack(s)))

(***************************************************************************)
(* Python values of different types compare unequal                        *)
(***************************************************************************)
PyInt(n) == [t |-> "int", v |-> n]

PyBytes(s) == [t |-> "bytes", v |-> s]

\* a str of one character with code n
PyStr(n) == [t |-> "str", v |-> n]

\* x != y
PyNe(x, y) == x.t # y.t \/ x.v # y.v

(***************************************************************************)
(* _decode_exec_args.  A str is a sequence of one-character strings over   *)
(* the digits, the letters, "." and ",".                                   *)
(***************************************************************************)
Digits == {"0", "1", "2", "3", "4", "5", "6", "7", "8", "9"}

\* the value of a digit
DigitVal(c) ==
    CASE c = "0" -> 0 [] c = "1" -> 1 [] c = "2" -> 2 [] c = "3" -> 3 [] c = "4" -> 4
      [] c = "5" -> 5 [] c = "6" -> 6 [] c = "7" -> 7 [] c = "8" -> 8 [] c = "9" -> 9

RECURSIVE Split(_)
\* args.split(",")
Split(str) ==
    IF \A i \in 1..Len(str) : str[i] # ","
    THEN <<str>>
    ELSE LET i == CHOOSE k \in 1..Len(str) :
                      str[k] = "," /\ \A j \in 1..(k - 1) : str[j] # ","
         IN  <<SubSeq(str, 1, i - 1)>> \o Split(SubSeq(str, i + 1, Len(str)))

RECURSIVE DigitsVal(_)
\* the number a sequence of digits writes
DigitsVal(tok) ==
    IF tok = <<>> THEN 0 ELSE DigitsVal(SubSeq(tok, 1, Len(tok) - 1)) * 10 + DigitVal(tok[Len(tok)])

\* int(tok): the int, or ValueError for a token that is not a run of digits
PyIntOf(tok) ==
    IF tok # <<>> /\ \A i \in 1..Len(tok) : tok[i] \in Digits
    THEN [exc |-> "", v |-> DigitsVal(tok)]
    ELSE [exc |-> "ValueError", v |-> 0]

\* tok without its characters c
Without(tok, c) == SelectSeq(tok, LAMBDA x : x # c)

RECURSIVE Pow10(_)
Pow10(n) == IF n = 0 THEN 1 ELSE 10 * Pow10(n - 1)

\* float(tok): the float as the fraction num / den, or ValueError for a
\* token that is not digits with at most one "." among them
PyFloatOf(tok) ==
    LET ds == Without(tok, ".")
    IN  IF /\ ds # <<>>
           /\ \A i \in 1..Len(ds) : ds[i] \in Digits
           /\ Len(tok) - Len(ds) <= 1
        THEN LET dot == IF Len(tok) = Len(ds) THEN Len(tok)
                        ELSE (CHOOSE k \in 1..Len(tok) : tok[k] = ".")
                 frac == IF Len(tok) = Len(ds) THEN 0 ELSE Len(tok) - dot
             IN  [exc |-> "", num |-> DigitsVal(ds), den |-> Pow10(frac)]
        ELSE [exc |-> "ValueError", num |-> 0, den |-> 1]

\* a parity_map without its upper-case keys
ParityOfLowerOnly(tok) ==
    CASE tok = <<"n">> -> "PARITY_NONE"  [] tok = <<"e">> -> "PARITY_EVEN"
      [] tok = <<"o">> -> "PARITY_ODD"   [] tok = <<"m">> -> "PARITY_MARK"
      [] tok = <<"s">> -> "PARITY_SPACE"
      [] OTHER -> "PARITY_NONE"

\* parity_map.get(parity, serial.PARITY_NONE)
ParityOf(tok) ==
    CASE tok = <<"n">> -> "PARITY_NONE"  [] tok = <<"N">> -> "PARITY_NONE"
      [] tok = <<"e">> -> "PARITY_EVEN"  [] tok = <<"E">> -> "PARITY_EVEN"
      [] tok = <<"o">> -> "PARITY_ODD"   [] tok = <<"O">> -> "PARITY_ODD"
      [] tok = <<"m">> -> "PARITY_MARK"  [] tok = <<"M">> -> "PARITY_MARK"
      [] tok = <<"s">> -> "PARITY_SPACE" [] tok = <<"S">> -> "PARITY_SPACE"
      [] OTHER -> "PARITY_NONE"

\* bytesize_map.get(n, serial.EIGHTBITS)
BytesizeOf(n) ==
    CASE n = 5 -> "FIVEBITS" [] n = 6 -> "SIXBITS" [] n = 7 -> "SEVENBITS"
      [] n = 8 -> "EIGHTBITS"
      [] OTHER -> "EIGHTBITS"

\* stopbits_map.get(x, serial.STOPBITS_ONE) for the float x = num / den
StopbitsOf(num, den) ==
    CASE num = den -> "STOPBITS_ONE"
      [] 2 * num = 3 * den -> "STOPBITS_ONE_POINT_FIVE"
      [] num = 2 * den -> "STOPBITS_TWO"
      [] OTHER -> "STOPBITS_ONE"

\* no keyword arguments
NoKwargs == [baudrate |-> 0, parity |-> "", bytesize |-> "", stopbits |-> ""]

\* _decode_exec_args(args): the keyword arguments for serial.Serial, or the
\* ValueError whose message quotes args
DecodeExecArgs(args) ==
    LET f == Split(args)
        bad == [exc |-> "ValueError", msg |-> args, kwargs |-> NoKwargs]
    IN  IF Len(f) # 4 THEN bad
        ELSE IF PyIntOf(f[1]).exc # "" THEN bad
        ELSE IF PyIntOf(f[3]).exc # "" THEN bad
        ELSE IF PyFloatOf(f[4]).exc # "" THEN bad
        ELSE [exc |-> "", msg |-> <<>>,
              kwargs |-> [baudrate |-> PyIntOf(f[1]).v,
                          parity |-> ParityOf(f[2]),
                          bytesize |-> BytesizeOf(PyIntOf(f[3]).v),
                          stopbits |-> StopbitsOf(PyFloatOf(f[4]).num,
                                                  PyFloatOf(f[4]).den)]]

(***************************************************************************)
(* The OS profile (self._dev) and the inputs of the model                  *)
(***************************************************************************)
\* self._dev.prompt: ">"
Prompt == << <<62, 1>> >>

\* self._dev.crash_keys: ["#!"]
CrashKeys == { << <<35, 1>>, <<33, 1>> >> }

\* commands a caller sends: "c" and "c\n"
Cmds == { << <<99, 1>> >>, << <<99, 1>>, <<NL, 1>> >> }

\* command a caller sends with a pattern: "c\n"
PatternCmds == { << <<99, 1>>, <<NL, 1>> >> }

\* patterns a caller waits for: "ab"
Patterns == { << <<97, 1>>, <<98, 1>> >> }

\* control characters a caller sends: the str "c" that the signature of
\* send_ctrl_cmd asks for, and the int 3
CtrlChars == {PyStr(99), PyInt(3)}

\* timeouts a caller passes (s)
Timeouts == {0, MaxTimeout}

\* what the device emits during a behaviour, chunk after chunk, at any time:
\* nothing; ">"; "#!"; a flood of "x"; ">", "ab"; "a", "b"; "#", "!";
\* "\x1B[", "m"
Scripts ==
    { <<>>,
      << << <<62, 1>> >> >>,
      << << <<35, 1>>, <<33, 1>> >> >>,
      [i \in 1..FloodCount |-> << <<120, FloodBurst>> >>],
      << << <<62, 1>> >>, << <<97, 1>>, <<98, 1>> >> >>,
      << << <<97, 1>> >>, << <<98, 1>> >> >>,
      << << <<35, 1>> >>, << <<33, 1>> >> >>,
      << << <<ESC, 1>>, <<91, 1>> >>, << <<109, 1>> >> >> }

\* a str of several fields joined by ","
RECURSIVE Join(_)
Join(fields) ==
    IF Len(fields) = 1 THEN fields[1]
    ELSE fields[1] \o <<",">> \o Join(Tail(fields))

\* tokens of a connection string: baud rates "115200", "9600", "x", "";
\* parities, known and unknown; data bits "5".."9", "x", "8.0"; stop bits
\* "1", "1.5", "2", "2.0", "3", "x"
BaudTokens == { <<"1", "1", "5", "2", "0", "0">>, <<"9", "6", "0", "0">>, <<"x">>, <<>> }

ParityTokens ==
    { <<"n">>, <<"N">>, <<"e">>, <<"E">>, <<"o">>, <<"O">>, <<"m">>, <<"M">>,
      <<"s">>, <<"S">>, <<"x">>, <<"n", "o">>, <<>> }

DataBitTokens ==
    { <<"5">>, <<"6">>, <<"7">>, <<"8">>, <<"9">>, <<"x">>, <<"8", ".", "0">> }

StopBitTokens ==
    { <<"1">>, <<"1", ".", "5">>, <<"2">>, <<"2", ".", "0">>, <<"3">>, <<"x">> }

\* connection strings of 4 fields, and some of 1, 3 and 5
ExecArgs ==
    { Join(<<b, p, d, st>>) : b \in BaudTokens, p \in ParityTokens,
                              d \in DataBitTokens, st \in StopBitTokens }
    \cup { Join(<<b>>) : b \in BaudTokens \ {<<>>} }
    \cup { Join(<<b, p, d>>) : b \in BaudTokens, p \in ParityTokens, d \in {<<"8">>} }
    \cup { Join(<<b, p, d, st, st>>) : b \in BaudTokens, p \in {<<"n">>},
                                      d \in {<<"8">>}, st \in StopBitTokens }

\* exec_args of the sessions whose calls are explored: none, and "9600,E,7"
SessionExecArgs == { <<>>, Join(<< <<"9", "6", "0", "0">>, <<"E">>, <<"7">> >>) }

\* time one transport read takes (ms)
ReadDelays == {1}

\* time that may pass in straight-line code before a clock read at time t
\* that is compared with end_time: none, or the millisecond that decides
\* the comparison
ClockDelays(t, end_time) == IF t = end_time THEN {0, 1} ELSE {0}

\* the first multiple of the call period after time t (ms)
NextCallTime(t) == ((t \div Sec(CallPeriod)) + 1) * Sec(CallPeriod)

(***************************************************************************)
(* State                                                                   *)
(***************************************************************************)
VARIABLES
    ser,             \* self._ser is set (the transport is open)
    crash,           \* self._crash.is_set()
    busy_loop,       \* self._busy_loop.is_set()
    busy_loop_last,  \* self._busy_loop_last (ms; 0: never set)
    logs,            \* self._logs is not None
    now,             \* time.time() (ms)
    rx,              \* bytes the transport holds for the next read
    script,          \* chunks the device has still to emit
    pc,              \* continuation labels of the call in flight
    ra,              \* locals of _read_all
    sc,              \* locals of send_command
    pt,              \* locals of send_cmd_read_until_pattern
    wb,              \* locals of _wait_for_boot
    retval,          \* value the callee that ended last returned
    result,          \* how the last top-level call ended
    io,              \* transport reads and writes of the top-level call
    tx,              \* bytes written to the transport by the top-level call
    hist,            \* history of the top-level call
    work,            \* top-level calls made plus chunks the device was given
    conf,            \* self._conf.core()["exec_args"] ("" when there are none)
    port             \* keyword arguments serial.Serial was called with

vars == <<ser, crash, busy_loop, busy_loop_last, logs, now, rx, script, pc, ra,
          sc, pt, wb, retval, result, io, tx, hist, work, conf, port>>

(***************************************************************************)
(* ntfc.device.common                                                      *)
(***************************************************************************)
\* CmdStatus
CmdStatus == {"SUCCESS", "NOTFOUND", "TIMEOUT"}

\* CmdReturn.valid_match of a returned CmdReturn r
valid_match(r) == (r.status = "SUCCESS") /\ r.match

(***************************************************************************)
(* The decisions of the code, as functions of what they read               *)
(***************************************************************************)
\* _dev_is_health without the busy-loop check
DevIsHealthNoBusy(s, c, b) ==
    IF ~s THEN FALSE
    ELSE IF c THEN FALSE
    ELSE TRUE

\* _dev_is_health without the crash check
DevIsHealthNoCrash(s, c, b) ==
    IF ~s THEN FALSE
    ELSE IF b THEN FALSE
    ELSE TRUE

\* _dev_is_health
DevIsHealth(s, c, b) ==
    IF ~s THEN FALSE
    ELSE IF c THEN FALSE
    ELSE IF b THEN FALSE
    ELSE TRUE

\* the bytes _write sends for data, in order, one transport write each
WriteBytes(data) ==
    BCat(data, IF PyNe(PyInt(BLast(data)), PyBytes(B(NL))) THEN B(NL) ELSE BEmpty)

\* the loop of _read_all without the break after self._crash.set()
ReadAllStepNoBreak(output, chunk, time_now, last, end_time) ==
    IF \E key \in CrashKeys : BContains(output, key)
    THEN [crash |-> TRUE, busy |-> FALSE, last |-> last, exit |-> time_now > end_time]
    ELSE IF chunk = BEmpty /\ last # 0 /\ time_now - last > Sec(BUSY_LOOP_TIMEOUT)
    THEN [crash |-> FALSE, busy |-> TRUE, last |-> 0, exit |-> TRUE]
    ELSE [crash |-> FALSE, busy |-> FALSE,
          last |-> IF chunk = BEmpty THEN last ELSE time_now,
          exit |-> time_now > end_time]

\* the loop of _read_all without the test that _busy_loop_last is set
ReadAllStepNoLastTest(output, chunk, time_now, last, end_time) ==
    IF \E key \in CrashKeys : BContains(output, key)
    THEN [crash |-> TRUE, busy |-> FALSE, last |-> last, exit |-> TRUE]
    ELSE IF chunk = BEmpty /\ time_now - last > Sec(BUSY_LOOP_TIMEOUT)
    THEN [crash |-> FALSE, busy |-> TRUE, last |-> 0, exit |-> TRUE]
    ELSE [crash |-> FALSE, busy |-> FALSE,
          last |-> IF chunk = BEmpty THEN last ELSE time_now,
          exit |-> time_now > end_time]

\* the loop of _read_all without the test of the timeout
ReadAllStepNoTimeout(output, chunk, time_now, last, end_time) ==
    IF \E key \in CrashKeys : BContains(output, key)
    THEN [crash |-> TRUE, busy |-> FALSE, last |-> last, exit |-> TRUE]
    ELSE IF chunk = BEmpty /\ last # 0 /\ time_now - last > Sec(BUSY_LOOP_TIMEOUT)
    THEN [crash |-> FALSE, busy |-> TRUE, last |-> 0, exit |-> TRUE]
    ELSE [crash |-> FALSE, busy |-> FALSE,
          last |-> IF chunk = BEmpty THEN last ELSE time_now,
          exit |-> FALSE]

\* the loop of _read_all without the else branch that records the activity
ReadAllStepNoActivity(output, chunk, time_now, last, end_time) ==
    IF \E key \in CrashKeys : BContains(output, key)
    THEN [crash |-> TRUE, busy |-> FALSE, last |-> last, exit |-> TRUE]
    ELSE IF chunk = BEmpty /\ last # 0 /\ time_now - last > Sec(BUSY_LOOP_TIMEOUT)
    THEN [crash |-> FALSE, busy |-> TRUE, last |-> 0, exit |-> TRUE]
    ELSE [crash |-> FALSE, busy |-> FALSE, last |-> last, exit |-> time_now > end_time]

\* one iteration of the loop of _read_all after chunk was read and appended
\* to output at time_now: the flags to set, the new last-activity time and
\* whether the loop ends
ReadAllStep(output, chunk, time_now, last, end_time) ==
    IF \E key \in CrashKeys : BContains(output, key)
    THEN [crash |-> TRUE, busy |-> FALSE, last |-> last, exit |-> TRUE]
    ELSE IF chunk = BEmpty /\ last # 0 /\ time_now - last > Sec(BUSY_LOOP_TIMEOUT)
    THEN [crash |-> FALSE, busy |-> TRUE, last |-> 0, exit |-> TRUE]
    ELSE [crash |-> FALSE, busy |-> FALSE,
          last |-> IF chunk = BEmpty THEN last ELSE time_now,
          exit |-> time_now > end_time]

\* bytes([c]) of _write_ctrl: the bytes it builds from the Python value c, or
\* the exception it ends in (a list item that is not an int)
WriteCtrlBytes(c) ==
    IF c.t = "int"
    THEN [exc |-> "", data |-> B(c.v)]
    ELSE [exc |-> "TypeError", data |-> BEmpty]

\* the accumulator without the cut
CapOutputNoCut(output, rsp) == BCat(output, rsp)

\* the accumulator of send_cmd_read_until_pattern after rsp is appended
CapOutput(output, rsp) ==
    LET o == BCat(output, rsp)
    IN  IF BLen(o) > OUTPUT_CAP THEN BSuffix(o, OUTPUT_CAP) ELSE o

\* the wait loop with the timeout test before the match test
WaitLoopStepTimeoutFirst(output, pattern, time, end_time, ret, healthy) ==
    IF time > end_time
    THEN [match |-> BContains(output, pattern), ret |-> "TIMEOUT", exit |-> TRUE]
    ELSE IF BContains(output, pattern)
    THEN [match |-> TRUE, ret |-> "SUCCESS", exit |-> TRUE]
    ELSE [match |-> FALSE, ret |-> ret, exit |-> ~healthy]

\* the wait loop with the timeout comparison turned around
WaitLoopStepEarlyTimeout(output, pattern, time, end_time, ret, healthy) ==
    IF BContains(output, pattern)
    THEN [match |-> TRUE, ret |-> "SUCCESS", exit |-> TRUE]
    ELSE IF time < end_time
    THEN [match |-> FALSE, ret |-> "TIMEOUT", exit |-> TRUE]
    ELSE [match |-> FALSE, ret |-> ret, exit |-> ~healthy]

\* one iteration of the wait loop of send_cmd_read_until_pattern after the
\* accumulator became output; ret is "UNBOUND" while the local was never
\* assigned
WaitLoopStep(output, pattern, time, end_time, ret, healthy) ==
    IF BContains(output, pattern)
    THEN [match |-> TRUE, ret |-> "SUCCESS", exit |-> TRUE]
    ELSE IF time > end_time
    THEN [match |-> FALSE, ret |-> "TIMEOUT", exit |-> TRUE]
    ELSE [match |-> FALSE, ret |-> ret, exit |-> ~healthy]

(***************************************************************************)
(* Records of a top-level call                                             *)
(***************************************************************************)
RA0 == [output |-> BEmpty, end_time |-> 0, first |-> TRUE]

SC0 == [cmd |-> BEmpty, timeout |-> 0]

PT0 ==
    [cmd |-> BEmpty, pattern |-> BEmpty, timeout |-> 0, output |-> BEmpty,
     end_time |-> 0, ret |-> "UNBOUND", match |-> FALSE]

WB0 == [end_time |-> 0, probes |-> 0]

IO0 == [reads |-> 0, writes |-> 0]

\* a call in flight
Pending(op) ==
    [op |-> op, kind |-> "pending", exc |-> "", status |-> "", match |-> FALSE,
     output |-> BEmpty, deadline |-> 0, time |-> 0]

\* a call that ended in exception exc at time t
Raised(op, exc, t) == [Pending(op) EXCEPT !.kind = "raise", !.exc = exc, !.time = t]

\* a call that returned at time t
Returned(op, status, match, output, deadline, t) ==
    [Pending(op) EXCEPT !.kind = "return", !.status = status, !.match = match,
                        !.output = output, !.deadline = deadline, !.time = t]

\* the history of a call that starts now with arguments cmd and pattern:
\* its start time, whether the session was unhealthy, the bytes the
\* transport held, the chunks the device emitted since (each with its
\* time), and how many of them it had emitted when the command was written
\* (-1: not written)
Hist(cmd, pattern) ==
    [unhealthy0 |-> crash \/ busy_loop, stale |-> rx, emits |-> <<>>, wrote |-> -1,
     cmd |-> cmd, pattern |-> pattern, t0 |-> now]

\* bookkeeping at the start of a call that counts as work
Begin(cmd, pattern) ==
    /\ pc = <<>>
    /\ work < MaxWork
    /\ work' = work + 1
    /\ hist' = Hist(cmd, pattern)

\* bookkeeping at the start of a call with argument cmd that does not poll
\* the transport
BeginShort(cmd) ==
    /\ pc = <<>>
    /\ work' = work
    /\ hist' = Hist(cmd, BEmpty)

\* a caller starts the calls that use the transport on its call period
OnPeriod == now % Sec(CallPeriod) = 0

\* the locals of a top-level call die when it ends
EndCall ==
    /\ pc' = <<>>
    /\ ra' = RA0
    /\ sc' = SC0
    /\ pt' = PT0
    /\ wb' = WB0
    /\ retval' = BEmpty

\* the session after construction, with exec_args from confs and a device
\* that follows one of scripts
InitWith(confs, scripts) ==
    /\ conf \in confs
    /\ port = NoKwargs
    /\ ser = FALSE
    /\ crash = FALSE
    /\ busy_loop = FALSE
    /\ busy_loop_last = 0
    /\ logs = FALSE
    /\ now = Sec(CallPeriod)
    /\ rx = BEmpty
    /\ script \in scripts
    /\ pc = <<>>
    /\ ra = RA0
    /\ sc = SC0
    /\ pt = PT0
    /\ wb = WB0
    /\ retval = BEmpty
    /\ result = Pending("none")
    /\ io = IO0
    /\ tx = BEmpty
    /\ hist = [unhealthy0 |-> FALSE, stale |-> BEmpty, emits |-> <<>>, wrote |-> -1,
               cmd |-> BEmpty, pattern |-> BEmpty, t0 |-> 0]
    /\ work = Len(script)

Init == InitWith(SessionExecArgs, Scripts)

\* sessions that differ in their exec_args only
InitDecode == InitWith(ExecArgs, {<<>>})

(***************************************************************************)
(* _read_all                                                               *)
(***************************************************************************)
\* entry of _read_all(timeout) at time t on an open transport, up to the
\* loop; stack holds the labels to continue at once it returns
EnterReadAll(timeout, stack, t) ==
    IF ~DevIsHealth(ser, crash, busy_loop)
    THEN /\ retval' = BEmpty
         /\ pc' = stack
         /\ ra' = ra
    ELSE /\ ra' = [output |-> BEmpty, end_time |-> t + Sec(timeout), first |-> TRUE]
         /\ pc' = <<"ra_loop">> \o stack
         /\ retval' = retval

\* one iteration of the loop of _read_all: the sleep that ended the previous
\* iteration, the read, the checks
ReadAllIter ==
    /\ pc # <<>>
    /\ Head(pc) = "ra_loop"
    /\ \E ds \in (IF ra.first THEN {0} ELSE {SLEEP_MS}), dr \in ReadDelays :
         LET healthy == DevIsHealth(ser, crash, busy_loop)
             chunk == IF healthy THEN BTake(rx, READ_SIZE) ELSE BEmpty
             output == BCat(ra.output, chunk)
             time_now == now + ds + dr
             st == ReadAllStep(output, chunk, time_now, busy_loop_last, ra.end_time)
         IN  /\ now' = time_now
             /\ rx' = IF healthy THEN BDrop(rx, READ_SIZE) ELSE rx
             /\ io' = IF healthy THEN [io EXCEPT !.reads = @ + 1] ELSE io
             /\ crash' = (crash \/ st.crash)
             /\ busy_loop' = (busy_loop \/ st.busy)
             /\ busy_loop_last' = st.last
             /\ IF st.exit
                THEN /\ pc' = Tail(pc)
                     /\ retval' = AnsiStrip(output)
                     /\ ra' = [ra EXCEPT !.output = output]
                ELSE /\ pc' = pc
                     /\ retval' = retval
                     /\ ra' = [ra EXCEPT !.output = output, !.first = FALSE]
    /\ UNCHANGED <<conf, port, ser, logs, script, sc, pt, wb, result, tx, hist, work>>

(***************************************************************************)
(* send_command and _write                                                 *)
(***************************************************************************)
\* entry of send_command(cmd, timeout) at time t on an open transport, up
\* to the loop of its first _read_all
EnterSendCommand(cmd, timeout, stack, t) ==
    /\ sc' = [cmd |-> cmd, timeout |-> timeout]
    /\ EnterReadAll(0, <<"sc_drained">> \o stack, t)

\* send_command without the test of self._ser
SendCommandNoOpenTest(cmd, timeout) ==
    /\ Begin(cmd, BEmpty)
    /\ OnPeriod
    /\ io' = IO0
    /\ tx' = BEmpty
    /\ result' = Pending("send_command")
    /\ EnterSendCommand(cmd, timeout, <<>>, now)
    /\ UNCHANGED <<conf, port, ser, crash, busy_loop, busy_loop_last, logs, now, rx, script, pt, wb>>

\* send_command called by the user
SendCommand(cmd, timeout) ==
    /\ Begin(cmd, BEmpty)
    /\ OnPeriod
    /\ io' = IO0
    /\ tx' = BEmpty
    /\ IF ~ser
       THEN /\ result' = Raised("send_command", "IOError", now)
            /\ UNCHANGED <<conf, port, pc, ra, sc, retval>>
       ELSE /\ result' = Pending("send_command")
            /\ EnterSendCommand(cmd, timeout, <<>>, now)
    /\ UNCHANGED <<conf, port, ser, crash, busy_loop, busy_loop_last, logs, now, rx, script, pt, wb>>

\* send_command after its first _read_all: _write up to the loop of the
\* _read_all that drains the echo
ScDrained ==
    /\ pc # <<>>
    /\ Head(pc) = "sc_drained"
    /\ IF ~DevIsHealth(ser, crash, busy_loop)
       THEN /\ EnterReadAll(sc.timeout, <<"sc_rsp">> \o Tail(pc), now)
            /\ UNCHANGED <<conf, port, tx, io, hist>>
       ELSE /\ tx' = BCat(tx, WriteBytes(sc.cmd))
            /\ io' = [io EXCEPT !.writes = @ + BLen(WriteBytes(sc.cmd))]
            /\ hist' = [hist EXCEPT !.wrote = Len(hist.emits)]
            /\ EnterReadAll(0, <<"wr_echoed">> \o Tail(pc), now)
    /\ UNCHANGED <<conf, port, ser, crash, busy_loop, busy_loop_last, logs, now, rx, script, sc,
                   pt, wb, result, work>>

\* the end of _write, and send_command up to the loop of its last _read_all
WrEchoed ==
    /\ pc # <<>>
    /\ Head(pc) = "wr_echoed"
    /\ EnterReadAll(sc.timeout, <<"sc_rsp">> \o Tail(pc), now)
    /\ UNCHANGED <<conf, port, ser, crash, busy_loop, busy_loop_last, logs, now, rx, script, sc,
                   pt, wb, result, io, tx, hist, work>>

\* send_command returns rsp
ScRsp ==
    /\ pc # <<>>
    /\ Head(pc) = "sc_rsp"
    /\ IF Tail(pc) = <<>>
       THEN /\ EndCall
            /\ result' = Returned("send_command", "", FALSE, retval, 0, now)
       ELSE /\ pc' = Tail(pc)
            /\ UNCHANGED <<conf, port, ra, sc, pt, wb, retval, result>>
    /\ UNCHANGED <<conf, port, ser, crash, busy_loop, busy_loop_last, logs, now, rx, script, io,
                   tx, hist, work>>

(***************************************************************************)
(* send_cmd_read_until_pattern                                             *)
(***************************************************************************)
\* the call, up to the loop of the _read_all that clears the buffer
SendCmdReadUntilPattern(cmd, pattern, timeout) ==
    /\ Begin(cmd, pattern)
    /\ OnPeriod
    /\ io' = IO0
    /\ tx' = BEmpty
    /\ IF ~ser
       THEN /\ result' = Raised("send_cmd_read_until_pattern", "IOError", now)
            /\ UNCHANGED <<conf, port, pc, ra, pt, retval>>
       ELSE /\ result' = Pending("send_cmd_read_until_pattern")
            /\ pt' = [PT0 EXCEPT !.cmd = cmd, !.pattern = pattern, !.timeout = timeout]
            /\ EnterReadAll(READ_ALL_TIMEOUT, <<"p_cleared">>, now)
    /\ UNCHANGED <<conf, port, ser, crash, busy_loop, busy_loop_last, logs, now, rx, script, sc, wb>>

\* output = self.send_command(cmd, 0), up to the loop of its first _read_all
PCleared ==
    /\ pc # <<>>
    /\ Head(pc) = "p_cleared"
    /\ EnterSendCommand(pt.cmd, 0, <<"p_sent">> \o Tail(pc), now)
    /\ UNCHANGED <<conf, port, ser, crash, busy_loop, busy_loop_last, logs, now, rx, script, pt,
                   wb, result, io, tx, hist, work>>

\* end_time = time.time() + timeout, and the first pass of the wait loop up
\* to the loop of its _read_all
PSent ==
    /\ pc # <<>>
    /\ Head(pc) = "p_sent"
    /\ pt' = [pt EXCEPT !.output = retval, !.end_time = now + Sec(pt.timeout)]
    /\ EnterReadAll(READ_ALL_TIMEOUT, <<"p_loop">> \o Tail(pc), now)
    /\ UNCHANGED <<conf, port, ser, crash, busy_loop, busy_loop_last, logs, now, rx, script, sc,
                   wb, result, io, tx, hist, work>>

\* the wait loop after its _read_all: append, cut, search, the two exits,
\* and either the CmdReturn or the next pass up to the loop of its _read_all
PLoop ==
    /\ pc # <<>>
    /\ Head(pc) = "p_loop"
    /\ \E d \in ClockDelays(now, pt.end_time) :
         LET output == CapOutput(pt.output, retval)
             st == WaitLoopStep(output, pt.pattern, now + d, pt.end_time, pt.ret,
                                DevIsHealth(ser, crash, busy_loop))
         IN  /\ now' = now + d
             /\ IF st.exit
                THEN /\ EndCall
                     /\ result' = IF st.ret = "UNBOUND"
                                  THEN Raised("send_cmd_read_until_pattern",
                                              "UnboundLocalError", now')
                                  ELSE Returned("send_cmd_read_until_pattern", st.ret,
                                                st.match, output, pt.end_time, now')
                ELSE /\ pt' = [pt EXCEPT !.output = output, !.ret = st.ret,
                                         !.match = st.match]
                     /\ EnterReadAll(READ_ALL_TIMEOUT, <<"p_loop">> \o Tail(pc), now')
                     /\ UNCHANGED <<conf, port, sc, wb, result>>
    /\ UNCHANGED <<conf, port, ser, crash, busy_loop, busy_loop_last, logs, rx, script, io, tx,
                   hist, work>>

(***************************************************************************)
(* send_ctrl_cmd and _write_ctrl                                           *)
(***************************************************************************)
SendCtrlCmd(c) ==
    /\ BeginShort(B(c.v))
    /\ IF ~ser
       THEN /\ result' = Raised("send_ctrl_cmd", "IOError", now)
            /\ io' = IO0
            /\ tx' = BEmpty
       ELSE IF ~DevIsHealth(ser, crash, busy_loop)
       THEN /\ result' = Returned("send_ctrl_cmd", "SUCCESS", FALSE, BEmpty, 0, now)
            /\ io' = IO0
            /\ tx' = BEmpty
       ELSE IF WriteCtrlBytes(c).exc # ""
       THEN /\ result' = Raised("send_ctrl_cmd", WriteCtrlBytes(c).exc, now)
            /\ io' = IO0
            /\ tx' = BEmpty
       ELSE /\ result' = Returned("send_ctrl_cmd", "SUCCESS", FALSE, BEmpty, 0, now)
            /\ io' = [reads |-> 0, writes |-> 1]
            /\ tx' = WriteCtrlBytes(c).data
    /\ UNCHANGED <<conf, port, ser, crash, busy_loop, busy_loop_last, logs, now, rx, script, pc,
                   ra, sc, pt, wb, retval>>

(***************************************************************************)
(* start and _wait_for_boot                                                *)
(***************************************************************************)
\* one pass of the loop of _wait_for_boot at time t with locals w, from the
\* loop test up to the loop of the first _read_all of the probe
BootProbe(t, w) ==
    IF t < w.end_time
    THEN /\ result' = Pending("start")
         /\ wb' = [w EXCEPT !.probes = @ + 1]
         /\ sc' = [cmd |-> B(NL), timeout |-> BOOT_PROBE_TIMEOUT]
         /\ IF ~DevIsHealth(TRUE, crash, busy_loop)
            THEN /\ retval' = BEmpty
                 /\ pc' = <<"sc_drained", "wb_probed">>
                 /\ ra' = ra
            ELSE /\ ra' = [output |-> BEmpty, end_time |-> t, first |-> TRUE]
                 /\ pc' = <<"ra_loop", "sc_drained", "wb_probed">>
                 /\ retval' = retval
         /\ pt' = pt
    ELSE /\ pc' = <<>>
         /\ ra' = RA0
         /\ sc' = SC0
         /\ pt' = PT0
         /\ wb' = WB0
         /\ retval' = BEmpty
         /\ result' = Raised("start", "TimeoutError", t)

\* start, called on a session whose transport is not open: decode the
\* exec_args of the configuration, open the transport, reboot, and
\* _wait_for_boot up to the loop of the first _read_all of its first probe
Start ==
    /\ Begin(BEmpty, BEmpty)
    /\ OnPeriod
    /\ ~ser
    /\ io' = IO0
    /\ tx' = BEmpty
    /\ IF conf # <<>> /\ DecodeExecArgs(conf).exc # ""
       THEN /\ result' = Raised("start", DecodeExecArgs(conf).exc, now)
            /\ UNCHANGED <<ser, port, pc, ra, sc, pt, wb, retval>>
       ELSE /\ ser' = TRUE
            /\ port' = IF conf # <<>> THEN DecodeExecArgs(conf).kwargs ELSE NoKwargs
            /\ BootProbe(now, [end_time |-> now + Sec(BOOT_TIMEOUT), probes |-> 0])
    /\ UNCHANGED <<conf, crash, busy_loop, busy_loop_last, logs, now, rx, script>>

\* _wait_for_boot and start with the result of the wait ignored
WbProbedNoRaise ==
    /\ pc # <<>>
    /\ Head(pc) = "wb_probed"
    /\ IF BContains(retval, Prompt)
       THEN /\ EndCall
            /\ result' = Returned("start", "", FALSE, BEmpty, 0, now)
            /\ now' = now
       ELSE /\ now' = now + Sec(BOOT_SLEEP)
            /\ IF now' < wb.end_time
               THEN BootProbe(now', wb)
               ELSE /\ EndCall
                    /\ result' = Returned("start", "", FALSE, BEmpty, 0, now')
    /\ UNCHANGED <<conf, port, ser, crash, busy_loop, busy_loop_last, logs, rx, script, io, tx,
                   hist, work>>

\* _wait_for_boot after a probe: the prompt check, the sleep, the loop test
\* and the next probe up to the loop of its first _read_all
WbProbed ==
    /\ pc # <<>>
    /\ Head(pc) = "wb_probed"
    /\ IF BContains(retval, Prompt)
       THEN /\ EndCall
            /\ result' = Returned("start", "", FALSE, BEmpty, 0, now)
            /\ now' = now
       ELSE /\ now' = now + Sec(BOOT_SLEEP)
            /\ IF now' < wb.end_time
               THEN BootProbe(now', wb)
               ELSE /\ EndCall
                    /\ result' = Raised("start", "TimeoutError", now')
    /\ UNCHANGED <<conf, port, ser, crash, busy_loop, busy_loop_last, logs, rx, script, io, tx,
                   hist, work>>

(***************************************************************************)
(* notalive, poweroff, reboot, start_log_collect, stop_log_collect         *)
(***************************************************************************)
\* the property notalive
notalive == IF ~ser THEN TRUE ELSE FALSE

Poweroff ==
    /\ BeginShort(BEmpty)
    /\ result' = Returned("poweroff", "", FALSE, BEmpty, 0, now)
    /\ io' = IO0
    /\ tx' = BEmpty
    /\ UNCHANGED <<conf, port, ser, crash, busy_loop, busy_loop_last, logs, now, rx, script, pc,
                   ra, sc, pt, wb, retval>>

\* a reboot that clears the health flags
RebootClearsFlags ==
    /\ BeginShort(BEmpty)
    /\ result' = Returned("reboot", "", FALSE, BEmpty, 0, now)
    /\ io' = IO0
    /\ tx' = BEmpty
    /\ crash' = FALSE
    /\ busy_loop' = FALSE
    /\ UNCHANGED <<conf, port, ser, busy_loop_last, logs, now, rx, script, pc, ra, sc, pt, wb,
                   retval>>

Reboot ==
    /\ BeginShort(BEmpty)
    /\ result' = Returned("reboot", "", FALSE, BEmpty, 0, now)
    /\ io' = IO0
    /\ tx' = BEmpty
    /\ UNCHANGED <<conf, port, ser, crash, busy_loop, busy_loop_last, logs, now, rx, script, pc,
                   ra, sc, pt, wb, retval>>

StartLogCollect ==
    /\ Begin(BEmpty, BEmpty)
    /\ logs' = TRUE
    /\ result' = Returned("start_log_collect", "", FALSE, BEmpty, 0, now)
    /\ io' = IO0
    /\ tx' = BEmpty
    /\ UNCHANGED <<conf, port, ser, crash, busy_loop, busy_loop_last, now, rx, script, pc, ra, sc,
                   pt, wb, retval>>

StopLogCollect ==
    /\ Begin(BEmpty, BEmpty)
    /\ logs' = FALSE
    /\ result' = Returned("stop_log_collect", "", FALSE, BEmpty, 0, now)
    /\ io' = IO0
    /\ tx' = BEmpty
    /\ UNCHANGED <<conf, port, ser, crash, busy_loop, busy_loop_last, now, rx, script, pc, ra, sc,
                   pt, wb, retval>>

(***************************************************************************)
(* The environment: the device and the caller's idle time                  *)
(***************************************************************************)
\* the device emits its next chunk into the open transport
DeviceEmit ==
    /\ ser
    /\ script # <<>>
    /\ rx' = BCat(rx, Head(script))
    /\ script' = Tail(script)
    /\ hist' = IF pc = <<>> THEN hist
               ELSE [hist EXCEPT !.emits = Append(@, [t |-> now, data |-> Head(script)])]
    /\ UNCHANGED <<conf, port, ser, crash, busy_loop, busy_loop_last, logs, now, pc, ra, sc, pt,
                   wb, retval, result, io, tx, work>>

\* the caller waits for its next call time, or for the first call time that
\* is more than the busy-loop timeout away
Idle ==
    /\ pc = <<>>
    /\ ser
    /\ work < MaxWork
    /\ \E t \in {NextCallTime(now), NextCallTime(now + Sec(BUSY_LOOP_TIMEOUT))} :
         /\ ~OnPeriod \/ t > now + Sec(BUSY_LOOP_TIMEOUT)
         /\ t <= MaxClock
         /\ now' = t
    /\ UNCHANGED <<conf, port, ser, crash, busy_loop, busy_loop_last, logs, rx, script, pc, ra,
                   sc, pt, wb, retval, result, io, tx, hist, work>>

Next ==
    \/ Start
    \/ \E cmd \in Cmds, timeout \in Timeouts : SendCommand(cmd, timeout)
    \/ \E cmd \in PatternCmds, pattern \in Patterns, timeout \in Timeouts :
         SendCmdReadUntilPattern(cmd, pattern, timeout)
    \/ \E c \in CtrlChars : SendCtrlCmd(c)
    \/ Poweroff
    \/ Reboot
    \/ StartLogCollect
    \/ StopLogCollect
    \/ ReadAllIter
    \/ ScDrained
    \/ WrEchoed
    \/ ScRsp
    \/ PCleared
    \/ PSent
    \/ PLoop
    \/ WbProbed
    \/ DeviceEmit
    \/ Idle

Spec == Init /\ [][Next]_vars

\* start() on every connection string
NextDecode == Start

SpecDecode == InitDecode /\ [][NextDecode]_vars

(***************************************************************************)
(* Notions the properties use                                              *)
(***************************************************************************)
\* the session is unhealthy
Unhealthy == crash \/ busy_loop

\* the last top-level call was op and has ended
Ended(op) == pc = <<>> /\ result.op = op /\ result.kind # "pending"

\* this step is a transport read of the loop of _read_all
ReadStep == pc # <<>> /\ Head(pc) = "ra_loop" /\ io'.reads = io.reads + 1

\* this step is a pass of the wait loop of send_cmd_read_until_pattern
WaitStep == pc # <<>> /\ Head(pc) = "p_loop" /\ pc' # pc

RECURSIVE EmitCat(_, _, _)
\* the bytes of the chunks es[i], es[i+1], ... emitted at time t or before
EmitCat(es, i, t) ==
    IF i > Len(es) THEN BEmpty
    ELSE BCat(IF es[i].t <= t THEN es[i].data ELSE BEmpty, EmitCat(es, i + 1, t))

(***************************************************************************)
(* C1                                                                      *)
(***************************************************************************)
\* C1: whenever the wait loop of send_cmd_read_until_pattern exits because
\* the session is unhealthy, with no match found and the deadline not
\* elapsed, the call returns a CmdReturn with status TIMEOUT and no match.
C1_UnhealthyExitReturnsTimeout ==
    [][(/\ WaitStep
        /\ Unhealthy
        /\ ~BContains(CapOutput(pt.output, retval), pt.pattern)
        /\ ~(now' > pt.end_time))
       => (/\ result'.kind = "return"
           /\ result'.status = "TIMEOUT"
           /\ ~result'.match)]_vars

(***************************************************************************)
(* C2                                                                      *)
(***************************************************************************)
\* C2: a call of send_command, send_cmd_read_until_pattern or send_ctrl_cmd
\* that starts on an open session with crashed or busyLooping set performs
\* no transport read and no transport write, and an output it returns is
\* empty.
C2_UnhealthyCallsDoNoIO ==
    (/\ hist.unhealthy0
     /\ result.op \in {"send_command", "send_cmd_read_until_pattern", "send_ctrl_cmd"})
    => (/\ io = IO0
        /\ tx = BEmpty
        /\ (result.kind = "return" => result.output = BEmpty))

\* a call with a pattern on a busy-looping session has returned
C2_Witness ==
    /\ hist.unhealthy0
    /\ busy_loop
    /\ Ended("send_cmd_read_until_pattern")
    /\ result.kind = "return"

(***************************************************************************)
(* C3                                                                      *)
(***************************************************************************)
\* the bytes the device emitted since the command was written and before
\* the deadline of the call
EmittedBeforeDeadline == EmitCat(hist.emits, hist.wrote + 1, result.deadline - 1)

\* C3: a send_cmd_read_until_pattern on a session that stays healthy, in
\* which the bytes the device emits after the command is written and before
\* the deadline contain the pattern and stay under the cap, returns SUCCESS
\* with valid_match() true, however the bytes fall on the reads of the call.
C3_MatchBeforeDeadlineSucceeds ==
    (/\ Ended("send_cmd_read_until_pattern")
     /\ ~Unhealthy
     /\ hist.wrote >= 0
     /\ BContains(EmittedBeforeDeadline, hist.pattern)
     /\ BLen(EmittedBeforeDeadline) < OUTPUT_CAP)
    => (/\ result.kind = "return"
        /\ result.status = "SUCCESS"
        /\ valid_match(result))

(***************************************************************************)
(* C4                                                                      *)
(***************************************************************************)
\* the bytes the transport held when the call started and the bytes the
\* device emitted since, up to the deadline of the call
DeliveredWithinTimeout == BCat(hist.stale, EmitCat(hist.emits, 1, result.deadline))

\* C4 as stated: a send_cmd_read_until_pattern on an open session that stays
\* healthy, in which no output delivered within the timeout contains the
\* pattern, returns TIMEOUT with no match, and not before the deadline.
C4_NoMatchWithinTimeoutIsTimeout ==
    (/\ Ended("send_cmd_read_until_pattern")
     /\ ser
     /\ ~Unhealthy
     /\ ~BContains(DeliveredWithinTimeout, hist.pattern))
    => (/\ result.kind = "return"
        /\ result.status = "TIMEOUT"
        /\ ~result.match
        /\ result.time > result.deadline)

\* C4 amended: a send_cmd_read_until_pattern on an open session that stays healthy
\* whose accumulated output contains no match of the pattern when it ends
\* returns TIMEOUT with no match, and not before the deadline has elapsed.
C4_NoMatchInOutputIsTimeout ==
    (/\ Ended("send_cmd_read_until_pattern")
     /\ ser
     /\ ~Unhealthy
     /\ ~BContains(result.output, hist.pattern))
    => (/\ result.kind = "return"
        /\ result.status = "TIMEOUT"
        /\ ~result.match
        /\ result.time > result.deadline)

\* a healthy call that set a timeout timed out on output without a match
C4_Witness ==
    /\ Ended("send_cmd_read_until_pattern")
    /\ ~Unhealthy
    /\ result.status = "TIMEOUT"
    /\ result.output # BEmpty
    /\ result.deadline < result.time
    /\ hist.wrote >= 0
    /\ result.time - result.deadline < Sec(MaxTimeout)

(***************************************************************************)
(* C5                                                                      *)
(***************************************************************************)
\* C5: crashed and busyLooping are false at construction, and no step of the
\* engine clears either of them once it is set.
C5_FlagsAreLatches ==
    /\ ~crash /\ ~busy_loop
    /\ [][(crash => crash') /\ (busy_loop => busy_loop')]_vars

\* a reboot ran on a session that had crashed
C5_Witness ==
    /\ crash
    /\ hist.unhealthy0
    /\ Ended("reboot")

(***************************************************************************)
(* C6                                                                      *)
(***************************************************************************)
\* C6: when a chunk read in the loop of _read_all on a healthy session
\* contains a crash marker, that iteration sets crashed and the loop returns
\* in it, without the sleep and whatever is left of the timeout.
C6_CrashMarkerEndsRead ==
    [][(/\ ReadStep
        /\ \E key \in CrashKeys : BContains(BTake(rx, READ_SIZE), key))
       => (/\ crash'
           /\ pc' = Tail(pc)
           /\ io'.reads = io.reads + 1)]_vars

\* a read with time left on its timeout has returned on a crash marker
C6_Witness ==
    /\ crash
    /\ pc # <<>>
    /\ Head(pc) # "ra_loop"
    /\ \E key \in CrashKeys : BContains(ra.output, key)
    /\ now < ra.end_time

(***************************************************************************)
(* C7                                                                      *)
(***************************************************************************)
\* the read of this step completes a crash marker in the output of its call
CompletesCrashMarker ==
    \E key \in CrashKeys : BContains(BCat(ra.output, BTake(rx, READ_SIZE)), key)

\* the read of this step is empty and more than the busy-loop timeout after
\* the last activity
SilentTooLong ==
    /\ BTake(rx, READ_SIZE) = BEmpty
    /\ busy_loop_last # 0
    /\ now' - busy_loop_last > Sec(BUSY_LOOP_TIMEOUT)

\* C7 as stated: every non-empty chunk resets the last-activity time to the
\* current time; an empty chunk read more than 180 seconds after the last
\* activity sets busyLooping and ends the read loop; busyLooping is set in no
\* other case.
C7_BusyLoopIffSilent ==
    [][/\ (ReadStep /\ BTake(rx, READ_SIZE) # BEmpty) => busy_loop_last' = now'
       /\ (ReadStep /\ SilentTooLong) => (busy_loop' /\ pc' = Tail(pc))
       /\ (busy_loop' /\ ~busy_loop) => (ReadStep /\ SilentTooLong)]_vars

\* C7 amended: every non-empty chunk that completes no crash marker resets
\* the last-activity time to the current time; an empty chunk read more than
\* 180 seconds after the last activity sets busyLooping and ends the read
\* loop; busyLooping is set in no other case.
C7_BusyLoopIffSilentNoCrash ==
    [][/\ (ReadStep /\ BTake(rx, READ_SIZE) # BEmpty /\ ~CompletesCrashMarker)
              => (busy_loop_last' = now' /\ busy_loop' = busy_loop)
       /\ (ReadStep /\ SilentTooLong) => (busy_loop' /\ pc' = Tail(pc))
       /\ (busy_loop' /\ ~busy_loop) => (ReadStep /\ SilentTooLong)]_vars

\* a read with time left on its timeout has returned on a busy loop
C7_Witness ==
    /\ busy_loop
    /\ pc # <<>>
    /\ Head(pc) # "ra_loop"
    /\ busy_loop_last = 0
    /\ now < ra.end_time

(***************************************************************************)
(* C8                                                                      *)
(***************************************************************************)
\* C8: a CmdReturn of send_cmd_read_until_pattern holds a match exactly when
\* its status is SUCCESS, its status is never NOTFOUND, and valid_match() is
\* true exactly for SUCCESS.
C8_MatchIffSuccess ==
    (result.op = "send_cmd_read_until_pattern" /\ result.kind = "return")
    => (/\ result.match <=> (result.status = "SUCCESS")
        /\ valid_match(result) <=> (result.status = "SUCCESS")
        /\ result.status \in {"SUCCESS", "TIMEOUT"})

\* a call returned SUCCESS on a match that was read after the deadline
C8_Witness ==
    /\ Ended("send_cmd_read_until_pattern")
    /\ result.status = "SUCCESS"
    /\ result.match
    /\ result.time > result.deadline

(***************************************************************************)
(* C9                                                                      *)
(***************************************************************************)
\* the accumulator after the pass of the wait loop this step takes
AccumulatorAfter == IF pc' = <<>> THEN result'.output ELSE pt'.output

\* C9: after every pass of the wait loop the accumulator, which is what the
\* pattern is searched in and what the call returns, holds at most 10000
\* bytes: the bytes appended so far, or their last 10000 if they are more.
C9_AccumulatorCapped ==
    [][(WaitStep /\ (pc' = <<>> => result'.kind = "return"))
       => LET o == BCat(pt.output, retval)
          IN  /\ BLen(AccumulatorAfter) <= OUTPUT_CAP
              /\ AccumulatorAfter =
                     IF BLen(o) > OUTPUT_CAP THEN BSuffix(o, OUTPUT_CAP) ELSE o]_vars

\* the call returned an accumulator that was cut to the cap
C9_Witness ==
    /\ Ended("send_cmd_read_until_pattern")
    /\ result.kind = "return"
    /\ BLen(result.output) = OUTPUT_CAP

(***************************************************************************)
(* C10                                                                     *)
(***************************************************************************)
\* C10: a send_command of a non-empty cmd on a healthy session writes cmd
\* when cmd ends with a newline and cmd followed by one newline otherwise,
\* one byte per write.
C10_WritesCmdWithOneNewline ==
    (/\ result.op = "send_command"
     /\ hist.wrote >= 0
     /\ hist.cmd # BEmpty)
    => (/\ tx = IF BLast(hist.cmd) = NL THEN hist.cmd ELSE BCat(hist.cmd, B(NL))
        /\ io.writes = BLen(tx))

(***************************************************************************)
(* C11                                                                     *)
(***************************************************************************)
\* the number of bytes the call in flight has read from the transport
Consumed == BLen(hist.stale) + BLen(EmitCat(hist.emits, 1, now)) - BLen(rx)

RECURSIVE EmitLen(_, _)
\* the number of bytes of the chunks es[1], ..., es[n]
EmitLen(es, n) == IF n = 0 THEN 0 ELSE BLen(es[n].data) + EmitLen(es, n - 1)

\* the number of bytes that were in the transport or on their way to it
\* before the call in flight wrote its command
StaleBytes == BLen(hist.stale) + EmitLen(hist.emits, hist.wrote)

\* C11: when send_command starts the read of its response, it has taken out
\* of the transport every byte that was buffered there when it was called
\* and every byte the device emitted before the command was written, so
\* that the response holds only bytes emitted after the write.
C11_ResponseStartsAfterStale ==
    (/\ result.op = "send_command"
     /\ pc # <<>>
     /\ Head(pc) = "wr_echoed")
    => Consumed >= StaleBytes

(***************************************************************************)
(* C12                                                                     *)
(***************************************************************************)
\* this step ends start()
StartEnds == pc # <<>> /\ Head(pc) = "wb_probed" /\ pc' = <<>>

\* C12: start() returns normally exactly when the response of the boot
\* probe it has just made contains the prompt; it makes at most 5 probes;
\* otherwise it ends in the boot-timeout error once the boot budget has
\* elapsed; and when the device never emits the prompt it ends in that
\* error.
C12_StartNeedsPrompt ==
    [][StartEnds
       => (/\ result'.op = "start"
           /\ wb.probes >= 1
           /\ wb.probes * BOOT_SLEEP <= BOOT_TIMEOUT
           /\ (result'.kind = "return") <=> BContains(retval, Prompt)
           /\ (result'.kind # "return")
                  => (/\ result'.kind = "raise"
                      /\ result'.exc = "TimeoutError"
                      /\ now' >= wb.end_time)
           /\ ~BContains(EmitCat(hist.emits, 1, now), Prompt)
                  => result'.kind = "raise")]_vars

\* start() returned on the prompt in the response of its second probe
C12_Witness ==
    /\ Ended("start")
    /\ result.kind = "return"
    /\ io.writes > BLen(WriteBytes(B(NL)))

(***************************************************************************)
(* C13                                                                     *)
(***************************************************************************)
\* s holds a complete escape sequence: ansi_escape matches somewhere in it
HasEscape(s) == AnsiStrip(s) # s

\* C13: no output returned by send_command or send_cmd_read_until_pattern
\* holds a complete ANSI escape sequence, however the bytes of the device
\* fall on the chunks and on the reads of the call.
C13_NoEscapeInOutput ==
    (/\ result.op \in {"send_command", "send_cmd_read_until_pattern"}
     /\ result.kind = "return")
    => ~HasEscape(result.output)

(***************************************************************************)
(* C14                                                                     *)
(***************************************************************************)
\* the operations that send to the device
SendOps == {"send_command", "send_cmd_read_until_pattern", "send_ctrl_cmd"}

\* C14: on a session whose transport was never opened, a call of
\* send_command, send_cmd_read_until_pattern or send_ctrl_cmd ends at once
\* in IOError, with no transport read or write, and leaves crashed,
\* busyLooping and the last-activity time as they were.
C14_NotOpenRaisesIOError ==
    [][(~ser /\ ~ser' /\ pc = <<>> /\ result'.op \in SendOps)
       => (/\ result'.kind = "raise"
           /\ result'.exc = "IOError"
           /\ result'.time = now
           /\ now' = now
           /\ pc' = <<>>
           /\ io' = IO0
           /\ tx' = BEmpty
           /\ UNCHANGED <<conf, port, crash, busy_loop, busy_loop_last, rx>>)]_vars

\* a call with a pattern has failed on a transport that was never opened
C14_Witness ==
    /\ ~ser
    /\ Ended("send_cmd_read_until_pattern")
    /\ result.exc = "IOError"

(***************************************************************************)
(* C15                                                                     *)
(***************************************************************************)
\* C15: notalive is true exactly when the transport is not open, and it is
\* true once poweroff() has returned, whatever the state it was called in.
C15_NotAliveAfterPoweroff ==
    /\ notalive <=> ~ser
    /\ (result.op = "poweroff" /\ result.kind = "return") => notalive

(***************************************************************************)
(* C16                                                                     *)
(***************************************************************************)
\* this step is a call of send_ctrl_cmd on a healthy open session
CtrlCall ==
    /\ pc = <<>>
    /\ pc' = <<>>
    /\ ser
    /\ ~Unhealthy
    /\ result'.op = "send_ctrl_cmd"
    /\ now' = now
    /\ script' = script

\* C16: send_ctrl_cmd on a healthy open session writes the control
\* character as one byte, reads nothing, leaves crashed, busyLooping and
\* the last-activity time as they were, and returns SUCCESS.
C16_CtrlWritesOneByte ==
    [][CtrlCall
       => (/\ result'.kind = "return"
           /\ result'.status = "SUCCESS"
           /\ tx' = hist'.cmd
           /\ BLen(tx') = 1
           /\ io' = [reads |-> 0, writes |-> 1]
           /\ UNCHANGED <<conf, port, crash, busy_loop, busy_loop_last, rx>>)]_vars

(***************************************************************************)
(* C17                                                                     *)
(***************************************************************************)
\* the connection strings "115200,n,8,1" and "9600,E,7,2"
Example1 == Join(<< <<"1", "1", "5", "2", "0", "0">>, <<"n">>, <<"8">>, <<"1">> >>)

Example2 == Join(<< <<"9", "6", "0", "0">>, <<"E">>, <<"7">>, <<"2">> >>)

\* the lower-case letter of a parity token of one letter
Lower(tok) ==
    CASE tok = <<"N">> -> <<"n">> [] tok = <<"E">> -> <<"e">> [] tok = <<"O">> -> <<"o">>
      [] tok = <<"M">> -> <<"m">> [] tok = <<"S">> -> <<"s">>
      [] OTHER -> tok

\* the parity a known lower-case token stands for
KnownParity(tok) ==
    CASE tok = <<"n">> -> "PARITY_NONE" [] tok = <<"e">> -> "PARITY_EVEN"
      [] tok = <<"o">> -> "PARITY_ODD"  [] tok = <<"m">> -> "PARITY_MARK"
      [] tok = <<"s">> -> "PARITY_SPACE"

\* start() has decoded the exec_args of the session
Decoded == conf # <<>> /\ result.op = "start"

\* the transport was opened with the keyword arguments k
OpenedWith(k) == ser /\ port = k /\ DecodeExecArgs(conf).exc = ""

\* start() failed in the ValueError that quotes the exec_args
DecodeFailed ==
    /\ ~ser
    /\ result.kind = "raise"
    /\ result.exc = "ValueError"
    /\ DecodeExecArgs(conf).msg = conf

\* C17 as stated: every connection string of exactly 4 fields decodes, and
\* every other one fails with an error that carries the string.
C17_FourFieldsAlwaysDecode ==
    Decoded => IF Len(Split(conf)) = 4 THEN OpenedWith(port) ELSE DecodeFailed

\* C17 amended: a connection string of exactly 4 fields whose baud-rate and
\* data-bit fields are integers and whose stop-bit field is a number
\* decodes: to that baud rate, to the parity of a known letter in either
\* case and else to no parity, to 5..8 data bits as written and else to 8,
\* to 1, 1.5 or 2 stop bits as written and else to 1.  Every other string
\* fails with the ValueError that quotes it.
C17_DecodeExecArgs ==
    Decoded =>
        LET f == Split(conf)
            wellFormed == /\ Len(f) = 4
                          /\ PyIntOf(f[1]).exc = ""
                          /\ PyIntOf(f[3]).exc = ""
                          /\ PyFloatOf(f[4]).exc = ""
        IN  /\ ~wellFormed => DecodeFailed
            /\ wellFormed =>
                 /\ OpenedWith(port)
                 /\ port.baudrate = DigitsVal(f[1])
                 /\ port.parity = IF Lower(f[2]) \in {<<"n">>, <<"e">>, <<"o">>, <<"m">>, <<"s">>}
                                  THEN KnownParity(Lower(f[2])) ELSE "PARITY_NONE"
                 /\ port.bytesize = IF f[3] = <<"5">> THEN "FIVEBITS"
                                    ELSE IF f[3] = <<"6">> THEN "SIXBITS"
                                    ELSE IF f[3] = <<"7">> THEN "SEVENBITS"
                                    ELSE "EIGHTBITS"
                 /\ port.stopbits = IF f[4] \in {<<"2">>, <<"2", ".", "0">>} THEN "STOPBITS_TWO"
                                    ELSE IF f[4] = <<"1", ".", "5">>
                                    THEN "STOPBITS_ONE_POINT_FIVE"
                                    ELSE "STOPBITS_ONE"
            /\ conf = Example1
                 => OpenedWith([baudrate |-> 115200, parity |-> "PARITY_NONE",
                                bytesize |-> "EIGHTBITS", stopbits |-> "STOPBITS_ONE"])
            /\ conf = Example2
                 => OpenedWith([baudrate |-> 9600, parity |-> "PARITY_EVEN",
                                bytesize |-> "SEVENBITS", stopbits |-> "STOPBITS_TWO"])

\* start() has opened the transport as "9600,E,7,2" says
C17_Witness ==
    /\ Decoded
    /\ conf = Example2
    /\ ser
    /\ port.parity = "PARITY_EVEN"

(***************************************************************************)
(* C18                                                                     *)
(***************************************************************************)
\* how far the code at the top of the stack is from the end of the
\* straight-line code of send_cmd_read_until_pattern; a polling loop in
\* progress is ranked lowest, for it lets the clock advance
Rank(stack) ==
    IF stack = <<>> THEN 0
    ELSE CASE Head(stack) = "ra_loop" -> 1
           [] Head(stack) = "p_loop" -> 2
           [] Head(stack) = "p_sent" -> 3
           [] Head(stack) = "sc_rsp" -> 4
           [] Head(stack) = "wr_echoed" -> 5
           [] Head(stack) = "sc_drained" -> 6
           [] Head(stack) = "p_cleared" -> 7
           [] OTHER -> 8

\* the longest a _read_all(timeout) takes (ms): its timeout, and the sleep
\* and the read of the pass that finds the timeout elapsed
ReadAllMax(timeout) == Sec(timeout) + SLEEP_MS + 1

\* the longest a send_cmd_read_until_pattern with this timeout takes (ms):
\* the clearing read, the three reads of send_command(cmd, 0), the timeout,
\* the wait-loop read in progress when it elapses, and the clock reads
CallMax(timeout) ==
    ReadAllMax(READ_ALL_TIMEOUT) + 3 * ReadAllMax(0) + Sec(timeout)
        + ReadAllMax(READ_ALL_TIMEOUT) + 2

\* a send_cmd_read_until_pattern is in flight
InPatternCall == pc # <<>> /\ result.op = "send_cmd_read_until_pattern"

\* C18: a send_cmd_read_until_pattern on an open transport ends.  Each of
\* its steps advances the clock or brings the straight-line code nearer to
\* its end; a read loop runs only while its own timeout has not elapsed;
\* the wait loop ends on a match, past the deadline and on an unhealthy
\* session; and the call is over within a time fixed by its timeout.
C18_PatternCallEnds ==
    [][/\ InPatternCall
          => /\ (pc' # pc \/ now' # now)
                    => (now' > now \/ (now' = now /\ Rank(pc') < Rank(pc)))
             /\ pc' # <<>> => now' <= hist.t0 + CallMax(pt.timeout)
             /\ WaitStep
                    => \/ pc' = <<>>
                       \/ /\ ~BContains(pt'.output, pt.pattern)
                          /\ now' <= pt.end_time
                          /\ ~Unhealthy
       /\ (pc' # <<>> /\ Head(pc') = "ra_loop") => now' <= ra'.end_time]_vars

\* a call has ended on its deadline after more than one pass of its wait
\* loop, while the device was sending
C18_Witness ==
    /\ Ended("send_cmd_read_until_pattern")
    /\ result.status = "TIMEOUT"
    /\ result.deadline >= hist.t0 + Sec(MaxTimeout)
    /\ result.time > result.deadline
    /\ hist.emits # <<>>

(***************************************************************************)
(* C19                                                                     *)
(***************************************************************************)
\* C19: crashed and busyLooping are never both set.
C19_NeverBothFlags == ~(crash /\ busy_loop)

\* a command ran on a crashed session more than the busy-loop timeout after
\* the last activity, and busyLooping is not set
C19_Witness ==
    /\ crash
    /\ ~busy_loop
    /\ busy_loop_last # 0
    /\ Ended("send_command")
    /\ hist.unhealthy0
    /\ now - busy_loop_last > Sec(BUSY_LOOP_TIMEOUT)

(***************************************************************************)
(* C20                                                                     *)
(***************************************************************************)
\* C20: the last-activity time leaves 0 only on the read of a non-empty
\* chunk; busyLooping is set only when it is not 0, and setting busyLooping
\* puts it back to 0.
C20_BusyNeedsActivity ==
    [][/\ (busy_loop_last = 0 /\ busy_loop_last' # 0)
              => (ReadStep /\ BTake(rx, READ_SIZE) # BEmpty)
       /\ (busy_loop_last = 0 /\ ~busy_loop) => ~busy_loop'
       /\ (~busy_loop /\ busy_loop') => (busy_loop_last # 0 /\ busy_loop_last' = 0)]_vars

\* a command has read from a device that has been silent since the
\* transport was opened, more than the busy-loop timeout ago
C20_Witness ==
    /\ ~busy_loop
    /\ busy_loop_last = 0
    /\ Ended("send_command")
    /\ io.reads > 0
    /\ now > Sec(CallPeriod) + Sec(BUSY_LOOP_TIMEOUT)

====
